---------------------------- MODULE Spec2Model ----------------------------
(***************************************************************************)
(* A model of rayon's fold_chunks adaptor (src/iter/fold_chunks.rs):       *)
(* the FoldChunks parallel iterator, the FoldChunksProducer it hands to    *)
(* the bridge, and the FoldChunksSeq double-ended iterator each producer   *)
(* fragment turns into.                                                    *)
(*                                                                         *)
(* The base parallel iterator is a sequence of n elements; element i of    *)
(* the input is represented by its index i (0-based).  A base producer is  *)
(* the half-open index range [lo, hi) it owns.  The user's closures are    *)
(* the free ones: identity() is the empty sequence and fold_op appends, so *)
(* a folded value is the sequence of the elements folded, in fold order.   *)
(* An Option is a sequence of length 0 (None) or 1 (Some).                 *)
(***************************************************************************)
EXTENDS Integers, Sequences, FiniteSets, TLC

\* Largest input length explored.
MaxLen == 6
\* Largest chunk_size explored (0 is always explored as well).
MaxChunk == 3
\* Largest number of producer fragments the bridge is let to create.
MaxFrags == 3
\* Width of usize in bits (64 on the usual targets, scaled down here).
UsizeBits == 4
\* Largest min_len / max_len of a base producer explored, besides the
\* default usize::MAX.
MaxGranularity == 5

VARIABLES
    n,          \* length of the base iterator handed to fold_chunks
    k,          \* the chunk_size argument handed to fold_chunks
    phase,      \* "start" | "view" | "run": position of the driving code
    view,       \* Option<FoldChunks>: the adaptor while it is alive
    reported,   \* Option<usize>: what FoldChunks::len last returned
    frags,      \* the producer fragments / cursors, in left-to-right order
    lastSplit,  \* Option: arguments and results of the last split_at call
    idCalls,    \* number of calls of the identity closure so far
    foldCalls,  \* number of calls of the fold_op closure so far
    hint,       \* Option: the last min_len / max_len answers of a producer
    panic       \* "none", or the message of the panic that ended the run

vars == <<n, k, phase, view, reported, frags, lastSplit, idCalls, foldCalls, hint, panic>>

None == <<>>
Some(x) == <<x>>

NoPanic == "none"
ZeroChunkMsg == "chunk_size must not be zero"
DivZeroMsg == "attempt to divide by zero"
AssertLenMsg == "assertion failed: self.len > 0"
BaseSplitMsg == "assertion failed: index <= self.len()"
RemZeroMsg == "attempt to calculate the remainder with a divisor of zero"
MulOverflowMsg == "attempt to multiply with overflow"

-----------------------------------------------------------------------------
(* usize: unsigned integers of UsizeBits bits *)

UsizeMax == 2 ^ UsizeBits - 1

\* a * b in usize leaves the type's range: a build with overflow checks
\* panics there, a build without them wraps.
MulOverflows(a, b) == a * b > UsizeMax

\* a * b as a build without overflow checks computes it.
WrappingMul(a, b) == (a * b) % (UsizeMax + 1)

-----------------------------------------------------------------------------
(* Pure helpers *)

\* std::cmp::min
min(a, b) == IF a < b THEN a ELSE b

\* crate::math::div_round_up (called with divisor > 0 only, see DivPanics)
div_round_up(num, divisor) ==
    IF num = 0 THEN 0 ELSE ((num - 1) \div divisor) + 1

\* Whether div_round_up(num, divisor) panics: the division is evaluated only
\* for num > 0.
DivPanics(num, divisor) == num > 0 /\ divisor = 0

\* The user's identity closure and fold_op closure.
identity == <<>>
fold_op(acc, x) == Append(acc, x)

\* Iterator::fold over a sequence of items, left to right.
RECURSIVE Fold(_, _)
Fold(items, acc) ==
    IF items = <<>> THEN acc
    ELSE Fold(Tail(items), fold_op(acc, Head(items)))

-----------------------------------------------------------------------------
(* The base producer: the index range [lo, hi), with the split granularity *)
(* min_len / max_len it reports.                                           *)

Base(len, min_len, max_len) ==
    [lo |-> 0, hi |-> len, min_len |-> min_len, max_len |-> max_len]

\* A base producer that keeps the defaults of Producer::min_len and
\* Producer::max_len: 1 and usize::MAX.
DefaultBase(len) == Base(len, 1, UsizeMax)

BaseLen(p) == p.hi - p.lo
BaseMinLen(p) == p.min_len
BaseMaxLen(p) == p.max_len

\* Producer::split_at of the base producer, at an element index.
BaseSplitAt(p, index) ==
    <<[p EXCEPT !.hi = p.lo + index], [p EXCEPT !.lo = p.lo + index]>>

\* The base producer rejects an index past its end.
BaseSplitOk(p, index) == index <= BaseLen(p)

\* Producer::into_iter of the base producer: its elements in forward order.
BaseIntoIter(p) == [i \in 1..BaseLen(p) |-> p.lo + i - 1]


-----------------------------------------------------------------------------
(* FoldChunks: the parallel iterator *)

\* fold_chunks without the check of its chunk_size argument.
ChunkSizeUnchecked(chunk_size) == TRUE

\* IndexedParallelIterator::fold_chunks checks its chunk_size argument
\* before it builds the adaptor.
ChunkSizeAccepted(chunk_size) == chunk_size /= 0

\* FoldChunks::new
FoldChunksNew(base, chunk_size) == [base |-> base, chunk_size |-> chunk_size]

\* FoldChunks::len rounding down.
FoldChunksLenFloor(fc) == BaseLen(fc.base) \div fc.chunk_size

\* FoldChunks::len
FoldChunksLen(fc) == div_round_up(BaseLen(fc.base), fc.chunk_size)

\* FoldChunks::with_producer and its Callback::callback: the producer of the
\* whole base, carrying the base's length.
FoldChunksWithProducer(fc) ==
    [chunk_size |-> fc.chunk_size, len |-> BaseLen(fc.base), base |-> fc.base]

-----------------------------------------------------------------------------
(* FoldChunksProducer *)

\* FoldChunksProducer::into_iter keeping the base producer whatever self.len.
ProducerIntoIterAlwaysSome(p) ==
    [chunk_size |-> p.chunk_size, len |-> p.len, inner |-> Some(p.base)]

\* FoldChunksProducer::into_iter
ProducerIntoIter(p) ==
    [chunk_size |-> p.chunk_size,
     len        |-> p.len,
     inner      |-> IF p.len > 0 THEN Some(p.base) ELSE None]

\* The element index without the clamp to self.len.
ElemIndexUnclamped(p, index) == index * p.chunk_size

\* The element index FoldChunksProducer::split_at splits the base at; the
\* product is a usize.
ElemIndex(p, index) == min(WrappingMul(index, p.chunk_size), p.len)

\* FoldChunksProducer::split_at splitting at the logical index itself, not
\* at index * chunk_size.
ProducerSplitAtUnscaled(p, index) ==
    LET elem_index == min(index, p.len)
        halves == BaseSplitAt(p.base, elem_index)
    IN  <<[chunk_size |-> p.chunk_size, len |-> elem_index, base |-> halves[1]],
          [chunk_size |-> p.chunk_size, len |-> p.len - elem_index,
           base |-> halves[2]]>>

\* FoldChunksProducer::split_at giving the right half the whole self.len.
ProducerSplitAtRightKeepsLen(p, index) ==
    LET elem_index == ElemIndex(p, index)
        halves == BaseSplitAt(p.base, elem_index)
    IN  <<[chunk_size |-> p.chunk_size, len |-> elem_index, base |-> halves[1]],
          [chunk_size |-> p.chunk_size, len |-> p.len, base |-> halves[2]]>>

\* FoldChunksProducer::split_at handing the left half the whole base, not
\* the left piece of the split.
ProducerSplitAtSharedBase(p, index) ==
    LET elem_index == ElemIndex(p, index)
        halves == BaseSplitAt(p.base, elem_index)
    IN  <<[chunk_size |-> p.chunk_size, len |-> elem_index, base |-> p.base],
          [chunk_size |-> p.chunk_size, len |-> p.len - elem_index,
           base |-> halves[2]]>>

\* FoldChunksProducer::split_at
ProducerSplitAt(p, index) ==
    LET elem_index == ElemIndex(p, index)
        halves == BaseSplitAt(p.base, elem_index)
    IN  <<[chunk_size |-> p.chunk_size, len |-> elem_index, base |-> halves[1]],
          [chunk_size |-> p.chunk_size, len |-> p.len - elem_index,
           base |-> halves[2]]>>

\* FoldChunksProducer::max_len rounding up.
ProducerMaxLenCeil(p) == div_round_up(BaseMaxLen(p.base), p.chunk_size)

\* FoldChunksProducer::min_len
ProducerMinLen(p) == div_round_up(BaseMinLen(p.base), p.chunk_size)

\* FoldChunksProducer::max_len
ProducerMaxLen(p) == BaseMaxLen(p.base) \div p.chunk_size

\* The number of items the producer stands for: the length the bridge keeps
\* for it, and so the range of the indices it splits at.
ProducerItems(p) ==
    IF p.chunk_size = 0 THEN 0 ELSE div_round_up(p.len, p.chunk_size)

-----------------------------------------------------------------------------
(* FoldChunksSeq: the sequential cursor.  A call's outcome is the record    *)
(* [seq: the cursor afterwards, ret: the Option returned, ids / folds: the  *)
(* number of identity / fold_op calls made, fail: the panic raised].        *)

Outcome(s, ret, ids, folds, fail) ==
    [seq |-> s, ret |-> ret, ids |-> ids, folds |-> folds, fail |-> fail]

\* The chunk folded from its last element to its first.
FoldChunkReversed(s, piece) ==
    LET chunk == BaseIntoIter(piece)
        rev == [i \in 1..Len(chunk) |-> chunk[Len(chunk) + 1 - i]]
    IN  Outcome(s, Some(Fold(rev, identity)), 1, Len(chunk), NoPanic)

\* chunk.fold((self.identity)(), self.fold_op) on a base fragment.
FoldChunk(s, piece) ==
    LET chunk == BaseIntoIter(piece)
    IN  Outcome(s, Some(Fold(chunk, identity)), 1, Len(chunk), NoPanic)

\* The last-chunk branch without self.len = 0.
LastChunkKeepsLen(s, producer) ==
    IF ~(s.len > 0)
    THEN Outcome([s EXCEPT !.inner = None], None, 0, 0, AssertLenMsg)
    ELSE FoldChunk([s EXCEPT !.inner = None], producer)

\* The last-chunk branch shared by next and next_back: the taken producer is
\* folded whole; debug_assert!(self.len > 0) guards it.
LastChunk(s, producer) ==
    IF ~(s.len > 0)
    THEN Outcome([s EXCEPT !.inner = None], None, 0, 0, AssertLenMsg)
    ELSE FoldChunk([s EXCEPT !.inner = None, !.len = 0], producer)

\* FoldChunksSeq::next with the branch test written self.len >= self.chunk_size.
SeqNextOffByOne(s) ==
    IF s.inner = None THEN Outcome(s, None, 0, 0, NoPanic)
    ELSE LET producer == s.inner[1] IN
         IF s.len >= s.chunk_size
         THEN IF ~BaseSplitOk(producer, s.chunk_size)
              THEN Outcome([s EXCEPT !.inner = None], None, 0, 0, BaseSplitMsg)
              ELSE LET halves == BaseSplitAt(producer, s.chunk_size)
                   IN  FoldChunk([s EXCEPT !.inner = Some(halves[2]),
                                           !.len = s.len - s.chunk_size],
                                 halves[1])
         ELSE LastChunk(s, producer)

\* FoldChunksSeq::next calling the identity closure before it looks at
\* self.inner.
SeqNextEagerIdentity(s) ==
    IF s.inner = None THEN Outcome(s, None, 1, 0, NoPanic)
    ELSE LET producer == s.inner[1] IN
         IF s.len > s.chunk_size
         THEN IF ~BaseSplitOk(producer, s.chunk_size)
              THEN Outcome([s EXCEPT !.inner = None], None, 0, 0, BaseSplitMsg)
              ELSE LET halves == BaseSplitAt(producer, s.chunk_size)
                   IN  FoldChunk([s EXCEPT !.inner = Some(halves[2]),
                                           !.len = s.len - s.chunk_size],
                                 halves[1])
         ELSE LastChunk(s, producer)

\* FoldChunksSeq::next without self.len -= self.chunk_size.
SeqNextKeepsLen(s) ==
    IF s.inner = None THEN Outcome(s, None, 0, 0, NoPanic)
    ELSE LET producer == s.inner[1] IN
         IF s.len > s.chunk_size
         THEN IF ~BaseSplitOk(producer, s.chunk_size)
              THEN Outcome([s EXCEPT !.inner = None], None, 0, 0, BaseSplitMsg)
              ELSE LET halves == BaseSplitAt(producer, s.chunk_size)
                   IN  FoldChunk([s EXCEPT !.inner = Some(halves[2])], halves[1])
         ELSE LastChunk(s, producer)

\* FoldChunksSeq::next
SeqNext(s) ==
    IF s.inner = None THEN Outcome(s, None, 0, 0, NoPanic)
    ELSE LET producer == s.inner[1] IN
         IF s.len > s.chunk_size
         THEN IF ~BaseSplitOk(producer, s.chunk_size)
              THEN Outcome([s EXCEPT !.inner = None], None, 0, 0, BaseSplitMsg)
              ELSE LET halves == BaseSplitAt(producer, s.chunk_size)
                   IN  FoldChunk([s EXCEPT !.inner = Some(halves[2]),
                                           !.len = s.len - s.chunk_size],
                                 halves[1])
         ELSE LastChunk(s, producer)

\* The size of the chunk next_back takes, without the remainder: always a
\* full chunk.
BackSizeFull(s) == s.chunk_size

\* The size of the chunk next_back takes, without the step from a zero
\* remainder to a full chunk.
BackSizeRemainderOnly(s) == s.len % s.chunk_size

\* The size of the chunk next_back takes when more than one chunk is left.
BackSize(s) ==
    LET size == s.len % s.chunk_size
    IN  IF size = 0 THEN s.chunk_size ELSE size

\* FoldChunksSeq::next_back written as a copy of next: it takes its chunk
\* from the left end.
SeqNextBackFromFront(s) ==
    IF s.inner = None THEN Outcome(s, None, 0, 0, NoPanic)
    ELSE LET producer == s.inner[1] IN
         IF s.len > s.chunk_size
         THEN LET halves == BaseSplitAt(producer, s.chunk_size)
              IN  FoldChunk([s EXCEPT !.inner = Some(halves[2]),
                                      !.len = s.len - s.chunk_size],
                            halves[1])
         ELSE LastChunk(s, producer)

\* FoldChunksSeq::next_back
SeqNextBack(s) ==
    IF s.inner = None THEN Outcome(s, None, 0, 0, NoPanic)
    ELSE LET producer == s.inner[1] IN
         IF s.len > s.chunk_size
         THEN IF s.chunk_size = 0
              THEN Outcome([s EXCEPT !.inner = None], None, 0, 0, RemZeroMsg)
              ELSE
              LET size == BackSize(s) IN
              IF ~BaseSplitOk(producer, s.len - size)
              THEN Outcome([s EXCEPT !.inner = None], None, 0, 0, BaseSplitMsg)
              ELSE LET halves == BaseSplitAt(producer, s.len - size)
                   IN  FoldChunk([s EXCEPT !.inner = Some(halves[1]),
                                           !.len = s.len - size],
                                 halves[2])
         ELSE LastChunk(s, producer)

\* ExactSizeIterator::len of the cursor rounding down.
SeqLenFloor(s) == s.len \div s.chunk_size

\* ExactSizeIterator::len of the cursor
SeqLen(s) == div_round_up(s.len, s.chunk_size)

-----------------------------------------------------------------------------
(* The state machine.  A fragment of frags is the record                    *)
(*   state : "producer" (a FoldChunksProducer the bridge may still split)   *)
(*           or "seq" (the FoldChunksSeq it was converted into),            *)
(*   p     : the FoldChunksProducer or FoldChunksSeq itself,                *)
(*   start : the value of p when the fragment entered this state,           *)
(*   front : the values next() returned, in call order,                     *)
(*   back  : the values next_back() returned, in call order.                *)
(* A call that returns None logs nothing.                                   *)

Fragment(state, p) ==
    [state |-> state, p |-> p, start |-> p,
     front |-> <<>>, back |-> <<>>]

Init ==
    /\ n \in 0..MaxLen
    /\ k \in 0..MaxChunk
    /\ phase = "start"
    /\ view = None
    /\ reported = None
    /\ frags = <<>>
    /\ lastSplit = None
    /\ idCalls = 0
    /\ foldCalls = 0
    /\ hint = None
    /\ panic = NoPanic

\* base.fold_chunks(chunk_size, identity, fold_op)
FoldChunksCall ==
    /\ panic = NoPanic
    /\ phase = "start"
    /\ IF ChunkSizeAccepted(k)
       THEN /\ view' = Some(FoldChunksNew(DefaultBase(n), k))
            /\ phase' = "view"
            /\ panic' = panic
       ELSE /\ panic' = ZeroChunkMsg
            /\ UNCHANGED <<view, phase>>
    /\ UNCHANGED <<n, k, reported, frags, lastSplit, idCalls, foldCalls, hint>>

\* FoldChunks::len (also reached through opt_len)
Len_ ==
    /\ panic = NoPanic
    /\ phase = "view"
    /\ reported = None
    /\ IF DivPanics(BaseLen(view[1].base), view[1].chunk_size)
       THEN /\ panic' = DivZeroMsg
            /\ UNCHANGED reported
       ELSE /\ reported' = Some(FoldChunksLen(view[1]))
            /\ panic' = panic
    /\ UNCHANGED <<n, k, phase, view, frags, lastSplit, idCalls, foldCalls, hint>>

\* FoldChunks::with_producer: the adaptor is consumed, the callback receives
\* the producer of the whole input.
WithProducer ==
    /\ panic = NoPanic
    /\ phase = "view"
    /\ LET p == FoldChunksWithProducer(view[1])
       IN  frags' = <<Fragment("producer", p)>>
    /\ phase' = "run"
    /\ view' = None
    /\ UNCHANGED <<n, k, reported, lastSplit, idCalls, foldCalls, hint, panic>>

\* frags with fragment j replaced by the fragments of the sequence by.
Replace(j, by) ==
    SubSeq(frags, 1, j - 1) \o by \o SubSeq(frags, j + 1, Len(frags))

\* FoldChunksProducer::split_at, called on fragment j.  Where the product
\* index * chunk_size leaves usize, the build decides: with overflow checks
\* the call panics, without them it goes on with the wrapped product.
SplitAt(j, index) ==
    /\ panic = NoPanic
    /\ phase = "run"
    /\ frags[j].state = "producer"
    /\ Len(frags) < MaxFrags
    /\ LET p == frags[j].p
           e == ElemIndex(p, index)
           halves == ProducerSplitAt(p, index)
       IN  \/ /\ MulOverflows(index, p.chunk_size)
              /\ panic' = MulOverflowMsg
              /\ UNCHANGED <<frags, lastSplit>>
           \/ IF BaseSplitOk(p.base, e)
              THEN /\ frags' = Replace(j, <<Fragment("producer", halves[1]),
                                            Fragment("producer", halves[2])>>)
                   /\ lastSplit' = Some([of |-> p, index |-> index,
                                         left |-> halves[1], right |-> halves[2]])
                   /\ panic' = panic
              ELSE /\ panic' = BaseSplitMsg
                   /\ UNCHANGED <<frags, lastSplit>>
    /\ UNCHANGED <<n, k, phase, view, reported, idCalls, foldCalls, hint>>

\* FoldChunksProducer::into_iter on fragment j.
IntoIter(j) ==
    /\ panic = NoPanic
    /\ phase = "run"
    /\ frags[j].state = "producer"
    /\ frags' = [frags EXCEPT ![j] =
                    Fragment("seq", ProducerIntoIter(frags[j].p))]
    /\ UNCHANGED <<n, k, phase, view, reported, lastSplit, idCalls, foldCalls, hint, panic>>

\* The effect of one cursor call with outcome o on fragment j; the value
\* returned is logged in the field log ("front" or "back").
Extract(j, o, log) ==
    /\ frags' = [frags EXCEPT ![j] =
                    [@ EXCEPT !.p = o.seq, ![log] = @ \o o.ret]]
    /\ idCalls' = idCalls + o.ids
    /\ foldCalls' = foldCalls + o.folds
    /\ panic' = o.fail
    /\ UNCHANGED <<n, k, phase, view, reported, lastSplit, hint>>

\* FoldChunksSeq::next on fragment j.
Next_(j) ==
    /\ panic = NoPanic
    /\ phase = "run"
    /\ frags[j].state = "seq"
    /\ Extract(j, SeqNext(frags[j].p), "front")

\* FoldChunksSeq::next_back on fragment j.
NextBack(j) ==
    /\ panic = NoPanic
    /\ phase = "run"
    /\ frags[j].state = "seq"
    /\ Extract(j, SeqNextBack(frags[j].p), "back")

Split == \E j \in 1..Len(frags) : \E index \in 0..ProducerItems(frags[j].p) : SplitAt(j, index)
Convert == \E j \in 1..Len(frags) : IntoIter(j)
Forward == \E j \in 1..Len(frags) : Next_(j)
Backward == \E j \in 1..Len(frags) : NextBack(j)

Next ==
    \/ FoldChunksCall
    \/ Len_
    \/ WithProducer
    \/ Split
    \/ Convert
    \/ Forward
    \/ Backward

Spec == Init /\ [][Next]_vars

-----------------------------------------------------------------------------
(* The cursors on their own: the state in which the producer of the whole   *)
(* input, or the two halves of one split_at of it, have just been converted *)
(* by into_iter, and a caller that keeps calling next and next_back on      *)
(* them.                                                                    *)

InitCursor ==
    /\ n \in 0..MaxLen
    /\ k \in 1..MaxChunk
    /\ phase = "run"
    /\ view = None
    /\ reported = None
    /\ idCalls = 0
    /\ foldCalls = 0
    /\ hint = None
    /\ panic = NoPanic
    /\ LET whole == FoldChunksWithProducer(FoldChunksNew(DefaultBase(n), k))
       IN  \/ /\ frags = <<Fragment("seq", ProducerIntoIter(whole))>>
              /\ lastSplit = None
           \/ \E index \in 0..ProducerItems(whole) :
                 LET halves == ProducerSplitAt(whole, index)
                 IN  /\ frags = <<Fragment("seq", ProducerIntoIter(halves[1])),
                                  Fragment("seq", ProducerIntoIter(halves[2]))>>
                     /\ lastSplit = Some([of |-> whole, index |-> index,
                                          left |-> halves[1], right |-> halves[2]])

NextCursor ==
    \/ Forward
    \/ Backward

\* The caller keeps calling: while a call can change the state, one is made.
SpecCursor == InitCursor /\ [][NextCursor]_vars /\ WF_vars(Forward \/ Backward)

-----------------------------------------------------------------------------
(* The producer on its own: the callback's producer over a base of any     *)
(* length a usize can hold, or over a base with its own min_len / max_len,  *)
(* and a caller that splits it once (as Take and Skip do, at any index up   *)
(* to its number of items) and asks the pieces for their granularity.       *)

InitProducer ==
    /\ phase = "run"
    /\ view = None
    /\ reported = None
    /\ lastSplit = None
    /\ idCalls = 0
    /\ foldCalls = 0
    /\ hint = None
    /\ panic = NoPanic
    /\ \E base_min \in 1..MaxGranularity :
       \E base_max \in 0..MaxGranularity \cup {UsizeMax} :
          /\ \/ /\ n \in 0..UsizeMax
                /\ k \in 1..UsizeMax
                /\ base_min = 1
                /\ base_max = UsizeMax
             \/ /\ n \in 0..MaxLen
                /\ k \in 1..MaxChunk
          /\ frags = <<Fragment("producer", FoldChunksWithProducer(
                          FoldChunksNew(Base(n, base_min, base_max), k)))>>

\* The one split of the callback's producer.
SplitWhole ==
    /\ Len(frags) = 1
    /\ \E index \in 0..ProducerItems(frags[1].p) : SplitAt(1, index)

\* FoldChunksProducer::min_len and ::max_len on fragment j.
Hint(j) ==
    /\ panic = NoPanic
    /\ phase = "run"
    /\ frags[j].state = "producer"
    /\ hint' = Some([of  |-> frags[j].p,
                     min |-> ProducerMinLen(frags[j].p),
                     max |-> ProducerMaxLen(frags[j].p)])
    /\ UNCHANGED <<n, k, phase, view, reported, frags, lastSplit, idCalls, foldCalls, panic>>

Granularity == \E j \in 1..Len(frags) : Hint(j)

NextProducer ==
    \/ SplitWhole
    \/ Granularity

SpecProducer == InitProducer /\ [][NextProducer]_vars

-----------------------------------------------------------------------------
(* Vocabulary of the properties *)

\* ceil(L / K) for K > 0, stated without division.
Ceil(L, K) == CHOOSE q \in 0..L : q * K >= L /\ (q = 0 \/ (q - 1) * K < L)

\* The elements lo, lo + 1, ..., hi - 1 in order.
Run(lo, hi) == [i \in 1..(hi - lo) |-> lo + i - 1]

\* The j-th chunk (1-based) of the partition of 0..L-1 into runs of K: the
\* element range [(j-1)K, min(jK, L)).
ChunkOf(j, L, K) == Run((j - 1) * K, IF j * K < L THEN j * K ELSE L)

\* The partition of 0..L-1 into chunks of K, the last one possibly short.
Partition(L, K) == [j \in 1..Ceil(L, K) |-> ChunkOf(j, L, K)]

\* The size the claims give to chunk j of Ceil(L, K).
ChunkSize(j, L, K) ==
    IF j < Ceil(L, K) THEN K ELSE IF L % K = 0 THEN K ELSE L % K

Reverse(seq) == [i \in 1..Len(seq) |-> seq[Len(seq) + 1 - i]]

RECURSIVE Flatten(_)
Flatten(seqs) == IF seqs = <<>> THEN <<>> ELSE Head(seqs) \o Flatten(Tail(seqs))

\* What repeated next() yields from cursor s until it returns None.
RECURSIVE ForwardAll(_)
ForwardAll(s) ==
    LET o == SeqNext(s)
    IN  IF o.ret = None THEN <<>> ELSE o.ret \o ForwardAll(o.seq)

\* The cursor of the unsplit producer of the whole input.
UnsplitSeq ==
    ProducerIntoIter(FoldChunksWithProducer(FoldChunksNew(DefaultBase(n), k)))

Running == phase = "run" /\ panic = NoPanic
IsSeq(f) == f.state = "seq"
Exhausted(f) == IsSeq(f) /\ f.p.inner = None
AllExhausted == phase = "run" /\ \A j \in 1..Len(frags) : Exhausted(frags[j])

\* The values fragment f has yielded, in the order of the output sequence.
Emitted(f) == f.front \o Reverse(f.back)

\* The values all fragments have yielded, fragments taken left to right.
Output == Flatten([j \in 1..Len(frags) |-> Emitted(frags[j])])

ForwardOnly == \A j \in 1..Len(frags) : frags[j].back = <<>>
BackwardOnly == \A j \in 1..Len(frags) : frags[j].front = <<>>

-----------------------------------------------------------------------------
(* Properties *)

\* C1: forward extraction from the cursor of the unsplit producer yields the
\* chunks [0,K), [K,2K), ... in order: the j-th value is chunk j of the
\* partition, of size K except the last (L mod K, or K when K divides L),
\* and once the cursor is exhausted the chunks cover all L elements.
C1_ForwardPartition ==
    (phase = "run" /\ Len(frags) = 1 /\ IsSeq(frags[1]) /\ frags[1].back = <<>>) =>
        LET f == frags[1] IN
        /\ panic = NoPanic
        /\ Len(f.front) <= Ceil(n, k)
        /\ \A j \in 1..Len(f.front) :
              /\ f.front[j] = ChunkOf(j, n, k)
              /\ Len(f.front[j]) = ChunkSize(j, n, k)
        /\ Exhausted(f) => /\ Len(f.front) = Ceil(n, k)
                           /\ Flatten(f.front) = Run(0, n)

\* An unsplit cursor drained forward over an input that ends in a short chunk.
C1_Witness ==
    /\ phase = "run" /\ Len(frags) = 1 /\ Exhausted(frags[1])
    /\ frags[1].back = <<>> /\ Len(frags[1].front) >= 2
    /\ n % k /= 0

\* C2: whatever splits the bridge made, every value a fragment yields going
\* forward is a chunk of the sequential run of the unsplit producer, and the
\* fragments' outputs, concatenated left to right, are exactly that run.
C2_SplitsKeepChunks ==
    (phase = "run" /\ ForwardOnly) =>
        LET sequential == ForwardAll(UnsplitSeq) IN
        /\ \A j \in 1..Len(frags) : \A i \in 1..Len(frags[j].front) :
              \E m \in 1..Len(sequential) : frags[j].front[i] = sequential[m]
        /\ AllExhausted => Output = sequential

\* Three fragments, at least two of them non-empty, drained forward, over an
\* input that ends in a short chunk.
C2_Witness ==
    /\ AllExhausted /\ ForwardOnly /\ Len(frags) = 3
    /\ frags[1].front /= <<>> /\ frags[3].front /= <<>>
    /\ n % k /= 0

\* C3: the length the view reports is ceil(L/K), and it is the number of
\* values the fragments have produced once all of them are exhausted,
\* whatever splits were made.
C3_LenIsCount ==
    /\ reported /= None => reported[1] = Ceil(n, k)
    /\ AllExhausted =>
          /\ Len(Output) = FoldChunksLen(FoldChunksNew(DefaultBase(n), k))
          /\ Len(Output) = Ceil(n, k)
          /\ reported /= None => Len(Output) = reported[1]

\* len() was called, the producer was split, and every fragment is drained;
\* K does not divide L.
C3_Witness ==
    /\ AllExhausted /\ reported /= None /\ Len(frags) >= 2
    /\ n % k /= 0 /\ Len(Output) >= 2

\* The order in which a reversed traversal receives the values: fragments
\* right to left, each in the call order of its next_back.
BackwardTraversal ==
    Flatten([j \in 1..Len(frags) |-> frags[Len(frags) + 1 - j].back])

\* C4: consuming backward only and reversing the result gives the forward
\* sequence of the unsplit producer, under any splits; the first value taken
\* from the right end is the forward run's last (possibly short) chunk.
C4_BackwardIsForwardReversed ==
    (phase = "run" /\ BackwardOnly) =>
        LET sequential == ForwardAll(UnsplitSeq)
            last == frags[Len(frags)]
        IN  /\ AllExhausted => Reverse(BackwardTraversal) = sequential
            /\ last.back /= <<>> => last.back[1] = sequential[Len(sequential)]

\* Two or more fragments drained backward only, over an input that ends in a
\* short chunk and has at least three chunks.
C4_Witness ==
    /\ AllExhausted /\ BackwardOnly /\ Len(frags) >= 2
    /\ Len(BackwardTraversal) >= 3
    /\ n % k /= 0

\* C5: with chunk size 0 and a non-empty input the run fails before fold_op
\* (or identity) is called and before any value is produced: nothing beyond
\* the rejected call exists but a failed run.
C5_ZeroChunkFailsFirst ==
    (k = 0 /\ n > 0) =>
        /\ foldCalls = 0 /\ idCalls = 0
        /\ Output = <<>>
        /\ phase /= "start" => panic /= NoPanic

\* fold_chunks(0, ..) was called on a non-empty input and has failed.
C5_Witness ==
    k = 0 /\ n > 0 /\ panic /= NoPanic /\ foldCalls = 0 /\ frags = <<>>

\* C6: the failure raised for chunk size 0 is "chunk_size must not be zero",
\* never another one such as the division by zero of the length computation.
C6_ZeroChunkMessage ==
    (k = 0 /\ panic /= NoPanic) => panic = ZeroChunkMsg

\* fold_chunks(0, ..) on a non-empty input has raised the named failure.
C6_Witness ==
    k = 0 /\ n > 0 /\ panic = ZeroChunkMsg /\ reported = None

\* C7: on an empty input with K > 0 nothing fails, the reported length is 0,
\* every cursor starts and stays exhausted and yields nothing, and neither
\* identity nor fold_op is ever called.
C7_EmptyInput ==
    (n = 0 /\ k > 0) =>
        /\ panic = NoPanic
        /\ idCalls = 0 /\ foldCalls = 0
        /\ reported /= None => reported[1] = 0
        /\ Output = <<>>
        /\ \A j \in 1..Len(frags) :
              IsSeq(frags[j]) => /\ frags[j].start.inner = None
                                 /\ frags[j].p.inner = None
                                 /\ frags[j].p.len = 0

\* Empty input: len() was called, the producer was split and both halves
\* were converted to cursors.
C7_Witness ==
    /\ n = 0 /\ k > 0 /\ reported /= None
    /\ Len(frags) = 2 /\ IsSeq(frags[1]) /\ IsSeq(frags[2])

\* C8: split_at(i) on a producer with remaining r splits the base at
\* e = min(i*K, r); the left half has remaining e and the right r - e, which
\* sum to r; when i*K >= r the right half has remaining 0; no split fails.
C8_SplitAtCounts ==
    /\ panic /= BaseSplitMsg
    /\ lastSplit /= None =>
          LET c == lastSplit[1]
              r == c.of.len
              K == c.of.chunk_size
              e == IF c.index * K < r THEN c.index * K ELSE r
          IN  /\ c.left.len = e
              /\ c.right.len = r - e
              /\ c.left.len + c.right.len = r
              /\ c.left.base = [c.of.base EXCEPT !.hi = c.of.base.lo + e]
              /\ c.right.base = [c.of.base EXCEPT !.lo = c.of.base.lo + e]
              /\ c.left.chunk_size = K /\ c.right.chunk_size = K
              /\ c.index * K >= r => c.right.len = 0

\* A split whose index * K lies past the remaining count: the clamp acted.
C8_Witness ==
    /\ lastSplit /= None
    /\ lastSplit[1].index * lastSplit[1].of.chunk_size > lastSplit[1].of.len
    /\ lastSplit[1].of.len > 0
    /\ lastSplit[1].right.len = 0

\* C9: on every cursor, after any interleaving of next and next_back, the
\* values next returned, then what a forward run of the cursor as it is now
\* would return, then the values next_back returned in reverse call order,
\* are the forward run of the cursor as it was created.
C9_InterleavingKeepsChunks ==
    phase = "run" =>
        \A j \in 1..Len(frags) :
            IsSeq(frags[j]) =>
                LET f == frags[j]
                IN  f.front \o ForwardAll(f.p) \o Reverse(f.back) = ForwardAll(f.start)

\* A cursor consumed from both ends, still active, created with a remaining
\* count K does not divide.
C9_Witness ==
    /\ phase = "run"
    /\ \E j \in 1..Len(frags) :
          /\ IsSeq(frags[j])
          /\ frags[j].front /= <<>> /\ frags[j].back /= <<>>
          /\ frags[j].p.inner /= None
          /\ frags[j].start.len % k /= 0

\* C10: a cursor holds a base producer exactly when remaining > 0; it is
\* exhausted exactly when it has yielded all the chunks it was created with;
\* the assertion of the last-chunk branch never fails.
C10_ActiveIffRemaining ==
    /\ panic /= AssertLenMsg
    /\ phase = "run" =>
          \A j \in 1..Len(frags) :
              IsSeq(frags[j]) =>
                  LET f == frags[j]
                  IN  /\ f.p.inner /= None <=> f.p.len > 0
                      /\ f.p.inner = None <=>
                            Len(f.front) + Len(f.back) = SeqLen(f.start)

\* A cursor that became exhausted by extractions from both ends, next to a
\* cursor that is still active.
C10_Witness ==
    /\ phase = "run"
    /\ \E j \in 1..Len(frags) :
          /\ Exhausted(frags[j])
          /\ frags[j].front /= <<>> /\ frags[j].back /= <<>>
    /\ \E j \in 1..Len(frags) :
          IsSeq(frags[j]) /\ frags[j].p.inner /= None /\ frags[j].p.len > 0

\* The number of elements the claims let a backward extraction take from a
\* cursor with remaining r > 0.
BackTake(r, K) == IF r % K = 0 THEN K ELSE r % K

\* C11: next_back on an active cursor with remaining r takes exactly the
\* BackTake(r, K) rightmost elements of the fragment it holds (all r of them
\* when r <= K), never a full chunk when r mod K is not zero, and keeps the
\* rest; the first value a cursor yields backward has that size.
C11_BackwardTakesRemainder ==
    phase = "run" =>
        \A j \in 1..Len(frags) :
            LET f == frags[j] IN
            /\ (IsSeq(f) /\ f.p.inner /= None) =>
                  LET s == f.p
                      r == s.len
                      held == s.inner[1]
                      size == BackTake(r, s.chunk_size)
                      o == SeqNextBack(s)
                  IN  /\ r > 0
                      /\ r <= s.chunk_size => size = r
                      /\ o.fail = NoPanic
                      /\ o.ret = Some(Run(held.hi - size, held.hi))
                      /\ r % s.chunk_size /= 0 => Len(o.ret[1]) < s.chunk_size
                      /\ o.seq.len = r - size
                      /\ o.seq.inner = IF r > size
                                       THEN Some([held EXCEPT !.hi = held.hi - size])
                                       ELSE None
            /\ (IsSeq(f) /\ f.front = <<>> /\ f.back /= <<>>) =>
                  Len(f.back[1]) = BackTake(f.start.len, f.start.chunk_size)

\* A cursor of several chunks whose first call was next_back and took the
\* short last chunk.
C11_Witness ==
    /\ phase = "run"
    /\ \E j \in 1..Len(frags) :
          /\ IsSeq(frags[j])
          /\ frags[j].front = <<>> /\ frags[j].back /= <<>>
          /\ frags[j].start.len > k
          /\ frags[j].start.len % k /= 0
          /\ Len(frags[j].back[1]) = frags[j].start.len % k

\* C12: the exact length a cursor reports is ceil(remaining / K); remaining
\* never grows; a call that returns a value, from either end, lowers the
\* exact length by exactly 1; so the values yielded so far plus the exact
\* length left are the exact length reported at creation.
C12_ExactLenCountsDown ==
    phase = "run" =>
        \A j \in 1..Len(frags) :
            IsSeq(frags[j]) =>
                LET f == frags[j]
                    s == f.p
                    fwd == SeqNext(s)
                    bwd == SeqNextBack(s)
                IN  /\ SeqLen(s) = Ceil(s.len, s.chunk_size)
                    /\ s.len <= f.start.len
                    /\ Len(f.front) + Len(f.back) + SeqLen(s) = SeqLen(f.start)
                    /\ fwd.ret /= None => /\ SeqLen(fwd.seq) = SeqLen(s) - 1
                                          /\ fwd.seq.len < s.len
                    /\ bwd.ret /= None => /\ SeqLen(bwd.seq) = SeqLen(s) - 1
                                          /\ bwd.seq.len < s.len
                    /\ fwd.ret = None => fwd.seq.len = s.len
                    /\ bwd.ret = None => bwd.seq.len = s.len
                    /\ Exhausted(f) => Len(f.front) + Len(f.back) = SeqLen(f.start)

\* A cursor created with at least three chunks, the last one short, drained
\* from both ends.
C12_Witness ==
    /\ phase = "run"
    /\ \E j \in 1..Len(frags) :
          /\ Exhausted(frags[j])
          /\ frags[j].front /= <<>> /\ frags[j].back /= <<>>
          /\ frags[j].start.len % k /= 0
          /\ Len(frags[j].front) + Len(frags[j].back) >= 3
          /\ Len(frags[j].front) + Len(frags[j].back) = SeqLen(frags[j].start)

\* C13: exhausted is absorbing.  An exhausted cursor has remaining 0 and
\* its chunk size; next and next_back on it return None, call neither
\* identity nor fold_op and raise nothing; the cursor is the same after any
\* step, and a call on it changes nothing at all.
C13_ExhaustedAbsorbing ==
    [][\A j \in 1..Len(frags) :
          Exhausted(frags[j]) =>
              LET s == frags[j].p IN
              /\ s.len = 0 /\ s.chunk_size = k
              /\ SeqNext(s) = Outcome(s, None, 0, 0, NoPanic)
              /\ SeqNextBack(s) = Outcome(s, None, 0, 0, NoPanic)
              /\ frags'[j] = frags[j]
              /\ (Next_(j) \/ NextBack(j)) => UNCHANGED vars]_vars

\* A cursor exhausted by calls from both ends, beside one that is active.
C13_Witness ==
    /\ phase = "run" /\ Len(frags) = 2
    /\ Exhausted(frags[1])
    /\ frags[1].front /= <<>> /\ frags[1].back /= <<>>
    /\ frags[2].p.inner /= None

\* The number of values fragment f has yielded.
Yielded(f) == Len(f.front) + Len(f.back)

\* C19: every cursor terminates.  A cursor created with remaining r is
\* exhausted exactly when it has returned ceil(r/K) values and never returns
\* more; each call that returns a value strictly lowers remaining; and a
\* caller that keeps calling next and next_back, in any order, reaches the
\* state in which every cursor is exhausted.
C19_CursorTerminates ==
    /\ [](\A j \in 1..Len(frags) :
             /\ Yielded(frags[j]) <= Ceil(frags[j].start.len, k)
             /\ Exhausted(frags[j]) <=>
                   Yielded(frags[j]) = Ceil(frags[j].start.len, k))
    /\ [][\A j \in 1..Len(frags) :
             Yielded(frags'[j]) > Yielded(frags[j]) =>
                 /\ Yielded(frags'[j]) = Yielded(frags[j]) + 1
                 /\ frags'[j].p.len < frags[j].p.len]_vars
    /\ <>[]AllExhausted

\* A cursor of at least three chunks, the last one short, exhausted by calls
\* from both ends.
C19_Witness ==
    /\ phase = "run"
    /\ \E j \in 1..Len(frags) :
          /\ Exhausted(frags[j])
          /\ Yielded(frags[j]) >= 3
          /\ Len(frags[j].front) >= 1 /\ Len(frags[j].back) >= 1
          /\ frags[j].p.len = 0
          /\ frags[j].start.len % k /= 0

\* C14: in every producer and cursor reachable from the view the remaining
\* count is the number of elements of the base fragment it owns (so never
\* more), and no split of a base fragment is asked past its end: not by any
\* split_at the bridge may call, not by next, not by next_back.
C14_RemainingIsHeld ==
    /\ panic /= BaseSplitMsg
    /\ view /= None =>
          FoldChunksWithProducer(view[1]).len = BaseLen(view[1].base)
    /\ phase = "run" =>
          \A j \in 1..Len(frags) :
              LET f == frags[j] IN
              IF IsSeq(f)
              THEN f.p.inner /= None =>
                      LET held == f.p.inner[1] IN
                      /\ f.p.len <= BaseLen(held)
                      /\ f.p.len = BaseLen(held)
                      /\ f.p.len > f.p.chunk_size =>
                            /\ BaseSplitOk(held, f.p.chunk_size)
                            /\ BaseSplitOk(held, f.p.len - BackSize(f.p))
              ELSE /\ f.p.len <= BaseLen(f.p.base)
                   /\ f.p.len = BaseLen(f.p.base)
                   /\ \A index \in 0..ProducerItems(f.p) :
                         BaseSplitOk(f.p.base, ElemIndex(f.p, index))

\* After two splits: a producer not yet converted, beside a cursor that has
\* yielded from both ends and still holds elements.
C14_Witness ==
    /\ phase = "run" /\ Len(frags) = 3 /\ lastSplit /= None
    /\ \E j \in 1..Len(frags) : ~IsSeq(frags[j]) /\ frags[j].p.len > 0
    /\ \E j \in 1..Len(frags) :
          /\ IsSeq(frags[j]) /\ frags[j].p.inner /= None
          /\ frags[j].front /= <<>> /\ frags[j].back /= <<>>

\* A folded value whose elements were folded in forward element order: a
\* non-empty run of consecutive elements.
InForwardOrder(c) == Len(c) >= 1 /\ c = Run(c[1], c[1] + Len(c))

\* C15: identity is called once per value yielded and fold_op once per
\* element of a yielded chunk; after a complete consumption, under any
\* splits and any mix of next and next_back, that is ceil(L/K) identity
\* calls and L fold_op calls; every chunk, also one taken by next_back, was
\* folded in forward element order.
C15_ClosureCalls ==
    phase = "run" =>
        /\ idCalls = Len(Output)
        /\ foldCalls = Len(Flatten(Output))
        /\ AllExhausted => idCalls = Ceil(n, k) /\ foldCalls = n
        /\ \A j \in 1..Len(frags) :
              /\ \A i \in 1..Len(frags[j].front) : InForwardOrder(frags[j].front[i])
              /\ \A i \in 1..Len(frags[j].back) : InForwardOrder(frags[j].back[i])

\* A split input, completely consumed from both ends, in which next_back
\* took a chunk of two or more elements; K does not divide L.
C15_Witness ==
    /\ AllExhausted /\ Len(frags) >= 2
    /\ n % k /= 0
    /\ idCalls = Ceil(n, k) /\ foldCalls = n
    /\ \E j \in 1..Len(frags) :
          /\ frags[j].front /= <<>>
          /\ \E i \in 1..Len(frags[j].back) : Len(frags[j].back[i]) >= 2

\* The elements fragment f owns, in order: those of its base for a producer;
\* for a cursor those it has folded from the front, those it still holds and
\* those it has folded from the back.
Owned(f) ==
    IF IsSeq(f)
    THEN Flatten(f.front)
            \o (IF f.p.inner = None THEN <<>> ELSE BaseIntoIter(f.p.inner[1]))
            \o Flatten(Reverse(f.back))
    ELSE BaseIntoIter(f.p.base)

IsPrefix(a, b) == Len(a) <= Len(b) /\ a = SubSeq(b, 1, Len(a))
IsSuffix(a, b) == Len(a) <= Len(b) /\ a = SubSeq(b, Len(b) - Len(a) + 1, Len(b))

\* C16: with the fragments consumed by independent workers, their calls
\* interleaved in any order, the fragments own disjoint element ranges that
\* together are the input; what a cursor has yielded is what it yields when
\* consumed alone; a step that is not a split changes one fragment at most,
\* so a call on one fragment leaves every other fragment as it was; and the
\* chunk size every fragment carries is never changed.
C16_FragmentsIndependent ==
    /\ [](phase = "run" =>
            /\ Flatten([j \in 1..Len(frags) |-> Owned(frags[j])]) = Run(0, n)
            /\ \A j \in 1..Len(frags) :
                  /\ frags[j].p.chunk_size = k
                  /\ IsSeq(frags[j]) =>
                        LET alone == ForwardAll(frags[j].start) IN
                        /\ IsPrefix(frags[j].front, alone)
                        /\ IsSuffix(Reverse(frags[j].back), alone)
                        /\ Exhausted(frags[j]) => Emitted(frags[j]) = alone)
    /\ [][/\ k' = k
          /\ (phase = "run" /\ Len(frags') = Len(frags)) =>
                \A i, j \in 1..Len(frags) :
                    (frags'[i] /= frags[i] /\ frags'[j] /= frags[j]) => i = j]_vars

\* Three cursors, each of which has yielded a value and still holds
\* elements: their calls were interleaved.
C16_Witness ==
    /\ phase = "run" /\ Len(frags) = 3
    /\ \A j \in 1..Len(frags) :
          /\ IsSeq(frags[j]) /\ frags[j].p.inner /= None
          /\ Yielded(frags[j]) >= 1

\* C17: in usize arithmetic split_at(i) is total for every producer with
\* remaining r, chunk size K > 0 and i in 0..ceil(r/K): the product i * K
\* does not leave usize, the element index is min(i * K, r) <= r, and r minus
\* it does not underflow.
C17_SplitAtTotal ==
    /\ panic /= MulOverflowMsg
    /\ lastSplit /= None =>
          LET c == lastSplit[1]
              r == c.of.len
              K == c.of.chunk_size
              i == c.index
          IN  (K > 0 /\ i \in 0..Ceil(r, K)) =>
                  /\ ~MulOverflows(i, K)
                  /\ c.left.len = min(i * K, r)
                  /\ c.left.len <= r
                  /\ c.right.len = r - c.left.len
                  /\ c.right.len >= 0

\* The part of C17 that does hold, wrapped product or not: the element
\* index never exceeds r and r minus it never underflows.
C17_ClampHolds ==
    lastSplit /= None =>
        /\ lastSplit[1].left.len \in 0..lastSplit[1].of.len
        /\ lastSplit[1].right.len = lastSplit[1].of.len - lastSplit[1].left.len

\* C18: the producer reports its granularity in chunks: min_len is
\* ceil(base min_len / K), max_len is floor(base max_len / K), never rounded
\* up, so it is 0 whenever the base's max_len is below K.
C18_GranularityInChunks ==
    hint /= None =>
        LET h == hint[1]
            base_min == BaseMinLen(h.of.base)
            base_max == BaseMaxLen(h.of.base)
            K == h.of.chunk_size
        IN  /\ K > 0
            /\ h.min = Ceil(base_min, K)
            /\ h.max \in 0..base_max
            /\ h.max * K <= base_max
            /\ base_max < (h.max + 1) * K
            /\ base_max < K => h.max = 0

\* A half of a split answered, with a base min_len that K does not divide
\* and a base max_len below K.
C18_Witness ==
    /\ hint /= None
    /\ lastSplit /= None
    /\ hint[1].of \in {lastSplit[1].left, lastSplit[1].right}
    /\ hint[1].of.chunk_size = 3
    /\ BaseMinLen(hint[1].of.base) = 4
    /\ BaseMaxLen(hint[1].of.base) = 2
    /\ hint[1].min = 2
    /\ hint[1].max = 0

=============================================================================
